---- MODULE Spec2Model ----
(***************************************************************************)
(* Model of src/build_tables/item_set_builder.rs: ParseItemSetBuilder::new *)
(* (FIRST/LAST sets, the per-non-terminal closure additions) and           *)
(* ParseItemSetBuilder::transitive_closure / add_item.                     *)
(***************************************************************************)
EXTENDS Integers, Sequences, FiniteSets, TLC

(***************************************************************************)
(* Symbols (crate::rules::Symbol): a kind and a dense index.               *)
(***************************************************************************)
non_terminal(n) == [kind |-> "NonTerminal", index |-> n]

terminal(n) == [kind |-> "Terminal", index |-> n]

external(n) == [kind |-> "External", index |-> n]

\* The end-of-input token; it occurs in lookahead sets only.
END == [kind |-> "End", index |-> 0]

is_terminal(s) == s.kind = "Terminal"

is_external(s) == s.kind = "External"

is_non_terminal(s) == s.kind = "NonTerminal"

(***************************************************************************)
(* Bounds of the model.                                                    *)
(***************************************************************************)
\* Largest number of entries of a kernel item set handed to transitive_closure.
MaxKernel == 2

\* Largest number of non-terminals marked "to inline" in one grammar.
MaxInline == 1

\* Largest number of steps of a production of the enumerated two-variable grammars.
MaxGenSteps == 2

\* Cap on the length of the entries_to_process stack (never reached by the code).
StackCap == 12

(***************************************************************************)
(* The grammars.  A production is the sequence of its steps' symbols, a    *)
(* variable the sequence of its productions, a grammar the sequence of its *)
(* variables plus the number of lexical variables and external tokens.     *)
(***************************************************************************)
Grammar(vs, nt, ne) == [variables |-> vs, terminals |-> nt, externals |-> ne]

\* A -> 'x' B | 'y' ;  B -> 'z'
GrammarXY ==
    Grammar(<< << <<terminal(0), non_terminal(1)>>, <<terminal(1)>> >>,
               << <<terminal(2)>> >> >>, 3, 0)

\* A -> B C ;  B -> 'b' ;  C -> ext
GrammarBC ==
    Grammar(<< << <<non_terminal(1), non_terminal(2)>> >>,
               << <<terminal(0)>> >>,
               << <<external(0)>> >> >>, 1, 1)

\* A -> A 'x' | 'y'
GrammarLeftRec ==
    Grammar(<< << <<non_terminal(0), terminal(0)>>, <<terminal(1)>> >> >>, 2, 0)

\* S -> A ;  A -> 'a' A | 'b'
GrammarEndToEnd ==
    Grammar(<< << <<non_terminal(1)>> >>,
               << <<terminal(0), non_terminal(1)>>, <<terminal(1)>> >> >>, 2, 0)

\* The same grammar with the variables in the other order:
\* A -> 'a' A | 'b' ;  S -> A
GrammarEndToEndRev ==
    Grammar(<< << <<terminal(0), non_terminal(0)>>, <<terminal(1)>> >>,
               << <<non_terminal(0)>> >> >>, 2, 0)

\* A -> B 't' ;  B -> (no steps)
GrammarNullable ==
    Grammar(<< << <<non_terminal(1), terminal(0)>> >>,
               << << >> >> >>, 1, 0)

\* V0 -> V1 V2 ;  V1 -> V2 V0 ;  V2 -> (no steps)
GrammarEmptyFirst ==
    Grammar(<< << <<non_terminal(1), non_terminal(2)>> >>,
               << <<non_terminal(2), non_terminal(0)>> >>,
               << << >> >> >>, 1, 0)

\* V0 -> V1 V2 ;  V1 -> V2 V0 ;  V2 -> V2 't'   (no production without steps)
GrammarEmptyFirstRec ==
    Grammar(<< << <<non_terminal(1), non_terminal(2)>> >>,
               << <<non_terminal(2), non_terminal(0)>> >>,
               << <<non_terminal(2), terminal(0)>> >> >>, 1, 0)

\* V0 -> V1 | 't' ;  V1 -> V0 ext      (mutually left-recursive)
GrammarMutualRec ==
    Grammar(<< << <<non_terminal(1)>>, <<terminal(0)>> >>,
               << <<non_terminal(0), external(0)>> >> >>, 1, 1)

\* V0 -> V1 ;  V1 -> V2 ;  V2 -> 't' | ext      (a chain of one-step productions)
GrammarChain ==
    Grammar(<< << <<non_terminal(1)>> >>,
               << <<non_terminal(2)>> >>,
               << <<terminal(0)>>, <<external(0)>> >> >>, 1, 1)

\* V0 -> V1 't' | V1 ext ;  V1 -> V2 | 't' ;  V2 -> ext V0
GrammarFollow ==
    Grammar(<< << <<non_terminal(1), terminal(0)>>, <<non_terminal(1), external(0)>> >>,
               << <<non_terminal(2)>>, <<terminal(0)>> >>,
               << <<external(0), non_terminal(0)>> >> >>, 1, 1)

\* V0 -> V1 't' ;  V1 has no productions
GrammarNoProductions ==
    Grammar(<< << <<non_terminal(1), terminal(0)>> >>,
               << >> >>, 1, 0)

NamedGrammars ==
    { GrammarXY, GrammarBC, GrammarLeftRec, GrammarEndToEnd, GrammarEndToEndRev,
      GrammarNullable, GrammarEmptyFirst, GrammarEmptyFirstRec, GrammarMutualRec,
      GrammarChain, GrammarFollow, GrammarNoProductions }

\* Every sequence of at most n elements of S.
RECURSIVE SeqsUpTo(_, _)
SeqsUpTo(S, n) ==
    IF n = 0 THEN { << >> }
    ELSE LET shorter == SeqsUpTo(S, n - 1)
         IN  shorter \cup { Append(q, x) : q \in shorter, x \in S }

GenSymbols == { non_terminal(0), non_terminal(1), terminal(0) }

\* Every grammar of two variables with at most one production each, of at
\* most MaxGenSteps steps, over the two non-terminals and one terminal.
GeneratedGrammars ==
    LET prods == SeqsUpTo(GenSymbols, MaxGenSteps)
        vars  == { << >> } \cup { <<p>> : p \in prods }
    IN  { Grammar(<<a, b>>, 1, 0) : a \in vars, b \in vars }

Grammars == NamedGrammars \cup GeneratedGrammars

NumVars(g) == Len(g.variables)

VarIndices(g) == 0 .. (NumVars(g) - 1)

\* syntax_grammar.variables[variable_index].productions
Productions(g, variable_index) == g.variables[variable_index + 1]

(***************************************************************************)
(* Parse items (super::item::ParseItem) and the inline collaborator        *)
(* (super::inline_variables::InlinedProductionMap).  A Normal item names a *)
(* production of the grammar by (variable_index, production_index); an     *)
(* Inlined item names a production of the inline map, identified here by   *)
(* its steps.                                                              *)
(***************************************************************************)
NormalItem(variable_index, production_index, step_index) ==
    [kind |-> "Normal", variable_index |-> variable_index,
     production_index |-> production_index, step_index |-> step_index,
     steps |-> << >>]

InlinedItem(variable_index, steps, step_index) ==
    [kind |-> "Inlined", variable_index |-> variable_index,
     production_index |-> 0, step_index |-> step_index, steps |-> steps]

ItemSteps(g, item) ==
    IF item.kind = "Normal"
    THEN Productions(g, item.variable_index)[item.production_index + 1]
    ELSE item.steps

NONE == [kind |-> "None", index |-> 0]

\* item.step(grammar, inlines): the symbol at the dot, NONE at the end.
Step(g, item) ==
    LET steps == ItemSteps(g, item)
    IN  IF item.step_index < Len(steps) THEN steps[item.step_index + 1] ELSE NONE

\* item.successor()
Successor(item) == [item EXCEPT !.step_index = item.step_index + 1]

\* The productions that `steps` stands for once the to-inline non-terminal
\* at position k (0-based) has been replaced by each of its productions, in
\* the order of those productions; a replacement that again has a to-inline
\* non-terminal at position k is expanded further.
RECURSIVE Expand(_, _, _, _), ExpandFrom(_, _, _, _, _)
Expand(g, to_inline, steps, k) ==
    IF k < Len(steps) /\ steps[k + 1] \in to_inline
    THEN ExpandFrom(g, to_inline, steps, k, 1)
    ELSE << steps >>

ExpandFrom(g, to_inline, steps, k, n) ==
    LET productions == Productions(g, steps[k + 1].index)
    IN  IF n > Len(productions) THEN << >>
        ELSE Expand(g, to_inline,
                    SubSeq(steps, 1, k) \o productions[n]
                        \o SubSeq(steps, k + 2, Len(steps)),
                    k)
             \o ExpandFrom(g, to_inline, steps, k, n + 1)

\* inlines.inlined_items(item) is Some(..) exactly when the symbol at the
\* item's dot is a non-terminal marked "to inline".
NeedsInlining(g, to_inline, item) == Step(g, item) \in to_inline

\* The substitute items of inlines.inlined_items(item), in order.
InlinedItems(g, to_inline, item) ==
    LET expanded == Expand(g, to_inline, ItemSteps(g, item), item.step_index)
    IN  [n \in 1 .. Len(expanded) |->
            InlinedItem(item.variable_index, expanded[n], item.step_index)]

Range(q) == { q[n] : n \in 1 .. Len(q) }

\* The inline expansion terminates: no production of a to-inline
\* non-terminal begins with a to-inline non-terminal.
InlineWellFounded(g, to_inline) ==
    \A s \in to_inline :
        \A n \in 1 .. Len(Productions(g, s.index)) :
            LET p == Productions(g, s.index)[n]
            IN  Len(p) > 0 => p[1] \notin to_inline

InlineChoices(g) ==
    { S \in SUBSET { non_terminal(v) : v \in VarIndices(g) } :
        Cardinality(S) <= MaxInline /\ InlineWellFounded(g, S) }

(***************************************************************************)
(* LookaheadSet (super::item::LookaheadSet): a set of symbols.             *)
(***************************************************************************)
\* a.insert_all(b): the set afterwards.
InsertAll(a, b) == a \cup b

\* a.insert_all(b): whether anything was added.
InsertAllChanged(a, b) == ~(b \subseteq a)

\* map.insert(k, v) / the entry API: the map with k bound to v.
Put(f, k, v) == [x \in DOMAIN f \cup {k} |-> IF x = k THEN v ELSE f[x]]

EmptyMap == [x \in {} |-> {}]

(***************************************************************************)
(* State.                                                                  *)
(***************************************************************************)
VARIABLES
    grammar,                \* syntax_grammar, lexical_grammar and the to-inline set
    pc,                     \* where ParseItemSetBuilder::new is, then "ready"
    i,                      \* the loop variable of the two `for i in 0..n` loops
    first_sets,             \* result.first_sets
    last_sets,              \* result.last_sets
    symbols_to_process,     \* the stack of the FIRST / LAST traversal
    processed_non_terminals,
    entries_to_process,     \* the stack of the closure-additions worklist
    follow_set_info_by_non_terminal,
    pending,                \* keys of follow_set_info_by_non_terminal not yet stored
    transitive_closure_additions,
    item_set,               \* the argument of the last transitive_closure call
    result                  \* what that call returned

vars == << grammar, pc, i, first_sets, last_sets, symbols_to_process,
           processed_non_terminals, entries_to_process,
           follow_set_info_by_non_terminal, pending,
           transitive_closure_additions, item_set, result >>

\* The state when ParseItemSetBuilder::new is entered with grammar g.
Entered(g, to_inline) ==
    /\ grammar = [variables |-> g.variables, terminals |-> g.terminals,
                  externals |-> g.externals, variables_to_inline |-> to_inline]
    /\ pc = "start"
    /\ i = 0
    /\ first_sets = EmptyMap
    /\ last_sets = EmptyMap
    /\ symbols_to_process = << >>
    /\ processed_non_terminals = {}
    /\ entries_to_process = << >>
    /\ follow_set_info_by_non_terminal = EmptyMap
    /\ pending = {}
    /\ transitive_closure_additions = [v \in VarIndices(g) |-> {}]
    /\ item_set = << >>
    /\ result = EmptyMap

Init == \E g \in NamedGrammars : \E to_inline \in InlineChoices(g) : Entered(g, to_inline)

InitBuild == \E g \in Grammars : \E to_inline \in InlineChoices(g) : Entered(g, to_inline)

(***************************************************************************)
(* ParseItemSetBuilder::new, FIRST and LAST sets (lines 47-119).           *)
(***************************************************************************)
TokenSymbols(g) ==
    { terminal(n) : n \in 0 .. (g.terminals - 1) }
    \cup { external(n) : n \in 0 .. (g.externals - 1) }

\* Lines 47-61: FIRST and LAST of a terminal or external token is the token.
TokenSets ==
    /\ pc = "start"
    /\ first_sets' = [s \in TokenSymbols(grammar) |-> {s}]
    /\ last_sets' = [s \in TokenSymbols(grammar) |-> {s}]
    /\ pc' = "symbol_sets"
    /\ i' = 0
    /\ UNCHANGED << grammar, symbols_to_process, processed_non_terminals,
                    entries_to_process, follow_set_info_by_non_terminal, pending,
                    transitive_closure_additions, item_set, result >>

\* Lines 72-81: the set of non-terminal i is created, the stack seeded.
FirstStart ==
    /\ pc = "symbol_sets"
    /\ i < NumVars(grammar)
    /\ first_sets' = IF non_terminal(i) \in DOMAIN first_sets THEN first_sets
                     ELSE Put(first_sets, non_terminal(i), {})
    /\ processed_non_terminals' = {}
    /\ symbols_to_process' = << non_terminal(i) >>
    /\ pc' = "first"
    /\ UNCHANGED << grammar, i, last_sets, entries_to_process,
                    follow_set_info_by_non_terminal, pending,
                    transitive_closure_additions, item_set, result >>

\* FirstStepSymbol with the wrong end of the production taken.
FirstStepSymbolFromEnd(production) == production[Len(production)]

\* The symbol a traversal pushes for a production: its first step (FIRST,
\* lines 90-92).
FirstStepSymbol(production) == production[1]

\* ... its last step (LAST, lines 113-115).
LastStepSymbol(production) == production[Len(production)]

\* The stack after the loop over the productions (lines 86-93, 109-116):
\* one push per production that has steps, in order.
RECURSIVE PushSteps(_, _, _, _)
PushSteps(stack, productions, n, use_first) ==
    IF n > Len(productions) THEN stack
    ELSE LET p == productions[n]
             pushed == IF Len(p) = 0 THEN stack
                       ELSE Append(stack, IF use_first THEN FirstStepSymbol(p)
                                          ELSE LastStepSymbol(p))
         IN  PushSteps(pushed, productions, n + 1, use_first)

\* One iteration of `while let Some(current_symbol) = symbols_to_process.pop()`
\* (lines 82-95 for FIRST, 105-118 for LAST): the new (set, stack, processed).
TraversalStep(set, use_first) ==
    LET current_symbol == symbols_to_process[Len(symbols_to_process)]
        popped == SubSeq(symbols_to_process, 1, Len(symbols_to_process) - 1)
    IN  IF is_terminal(current_symbol) \/ is_external(current_symbol)
        THEN [set |-> set \cup {current_symbol}, stack |-> popped,
              processed |-> processed_non_terminals]
        ELSE IF current_symbol \notin processed_non_terminals
        THEN [set |-> set,
              stack |-> PushSteps(popped, Productions(grammar, current_symbol.index),
                                  1, use_first),
              processed |-> processed_non_terminals \cup {current_symbol}]
        ELSE [set |-> set, stack |-> popped, processed |-> processed_non_terminals]

FirstStep ==
    /\ pc = "first"
    /\ symbols_to_process # << >>
    /\ LET r == TraversalStep(first_sets[non_terminal(i)], TRUE)
       IN  /\ first_sets' = [first_sets EXCEPT ![non_terminal(i)] = r.set]
           /\ symbols_to_process' = r.stack
           /\ processed_non_terminals' = r.processed
    /\ UNCHANGED << grammar, pc, i, last_sets, entries_to_process,
                    follow_set_info_by_non_terminal, pending,
                    transitive_closure_additions, item_set, result >>

\* Lines 98-104.
LastStart ==
    /\ pc = "first"
    /\ symbols_to_process = << >>
    /\ last_sets' = IF non_terminal(i) \in DOMAIN last_sets THEN last_sets
                    ELSE Put(last_sets, non_terminal(i), {})
    /\ processed_non_terminals' = {}
    /\ symbols_to_process' = << non_terminal(i) >>
    /\ pc' = "last"
    /\ UNCHANGED << grammar, i, first_sets, entries_to_process,
                    follow_set_info_by_non_terminal, pending,
                    transitive_closure_additions, item_set, result >>

LastStep ==
    /\ pc = "last"
    /\ symbols_to_process # << >>
    /\ LET r == TraversalStep(last_sets[non_terminal(i)], FALSE)
       IN  /\ last_sets' = [last_sets EXCEPT ![non_terminal(i)] = r.set]
           /\ symbols_to_process' = r.stack
           /\ processed_non_terminals' = r.processed
    /\ UNCHANGED << grammar, pc, i, first_sets, entries_to_process,
                    follow_set_info_by_non_terminal, pending,
                    transitive_closure_additions, item_set, result >>

\* The end of one iteration of the loop of line 72.
NextSymbol ==
    /\ pc = "last"
    /\ symbols_to_process = << >>
    /\ i' = i + 1
    /\ pc' = "symbol_sets"
    /\ UNCHANGED << grammar, first_sets, last_sets, symbols_to_process,
                    processed_non_terminals, entries_to_process,
                    follow_set_info_by_non_terminal, pending,
                    transitive_closure_additions, item_set, result >>

\* pub fn first_set(&self, symbol): a lookup that panics on an unregistered symbol.
first_set(symbol) == first_sets[symbol]

(***************************************************************************)
(* ParseItemSetBuilder::new, the closure additions (lines 142-227).        *)
(***************************************************************************)
FollowSetInfo(lookaheads, propagates_lookaheads) ==
    [lookaheads |-> lookaheads, propagates_lookaheads |-> propagates_lookaheads]

Entry(variable_index, lookaheads, propagates_lookaheads) ==
    [variable_index |-> variable_index, lookaheads |-> lookaheads,
     propagates_lookaheads |-> propagates_lookaheads]

\* Lines 142-149: the first step of the loop of line 142.
AdditionsBegin ==
    /\ pc = "symbol_sets"
    /\ i = NumVars(grammar)
    /\ i' = 0
    /\ pc' = "additions"
    /\ UNCHANGED << grammar, first_sets, last_sets, symbols_to_process,
                    processed_non_terminals, entries_to_process,
                    follow_set_info_by_non_terminal, pending,
                    transitive_closure_additions, item_set, result >>

\* Lines 143-149: the worklist is seeded with (i, {}, true).
WorklistStart ==
    /\ pc = "additions"
    /\ i < NumVars(grammar)
    /\ entries_to_process' = << Entry(i, {}, TRUE) >>
    /\ follow_set_info_by_non_terminal' = EmptyMap
    /\ pc' = "worklist"
    /\ UNCHANGED << grammar, i, first_sets, last_sets, symbols_to_process,
                    processed_non_terminals, pending,
                    transitive_closure_additions, item_set, result >>

\* Lines 152-157: the accumulator of the entry's non-terminal, created
\* empty when absent.
ExistingInfo(info_map, variable_index) ==
    IF variable_index \in DOMAIN info_map THEN info_map[variable_index]
    ELSE FollowSetInfo({}, FALSE)

\* DidAddFollowSetInfo with the result of insert_all dropped.
DidAddIgnoringInsertAll(existing_info, entry) ==
    IF entry.propagates_lookaheads
    THEN ~existing_info.propagates_lookaheads
    ELSE TRUE

\* Lines 159-165: did_add_follow_set_info.
DidAddFollowSetInfo(existing_info, entry) ==
    IF entry.propagates_lookaheads
    THEN ~existing_info.propagates_lookaheads
    ELSE InsertAllChanged(existing_info.lookaheads, entry.lookaheads)

\* Lines 160-165: the accumulator after the merge.
MergedInfo(existing_info, entry) ==
    IF entry.propagates_lookaheads
    THEN FollowSetInfo(existing_info.lookaheads, TRUE)
    ELSE FollowSetInfo(InsertAll(existing_info.lookaheads, entry.lookaheads),
                       existing_info.propagates_lookaheads)

\* Lines 171-183: the entry pushed for a production whose first step is the
\* non-terminal `symbol`.
PushedEntry(production, entry) ==
    IF Len(production) = 1
    THEN Entry(production[1].index, entry.lookaheads, entry.propagates_lookaheads)
    ELSE Entry(production[1].index, first_sets[production[2]], FALSE)

\* Lines 168-186: the stack after the loop over the productions.
RECURSIVE PushEntries(_, _, _, _)
PushEntries(stack, productions, n, entry) ==
    IF n > Len(productions) THEN stack
    ELSE LET p == productions[n]
             pushed == IF Len(p) > 0 /\ is_non_terminal(p[1])
                       THEN Append(stack, PushedEntry(p, entry))
                       ELSE stack
         IN  PushEntries(pushed, productions, n + 1, entry)

\* Lines 150-188: one iteration of `while let Some(entry) = entries_to_process.pop()`.
WorklistStep ==
    /\ pc = "worklist"
    /\ entries_to_process # << >>
    /\ Len(entries_to_process) <= StackCap
    /\ LET entry == entries_to_process[Len(entries_to_process)]
           popped == SubSeq(entries_to_process, 1, Len(entries_to_process) - 1)
           existing_info == ExistingInfo(follow_set_info_by_non_terminal,
                                         entry.variable_index)
       IN  /\ follow_set_info_by_non_terminal' =
                 Put(follow_set_info_by_non_terminal, entry.variable_index,
                     MergedInfo(existing_info, entry))
           /\ entries_to_process' =
                 IF DidAddFollowSetInfo(existing_info, entry)
                 THEN PushEntries(popped, Productions(grammar, entry.variable_index),
                                  1, entry)
                 ELSE popped
    /\ UNCHANGED << grammar, pc, i, first_sets, last_sets, symbols_to_process,
                    processed_non_terminals, pending,
                    transitive_closure_additions, item_set, result >>

\* Line 193: the loop over the map starts; its keys come in any order.
StoreStart ==
    /\ pc = "worklist"
    /\ entries_to_process = << >>
    /\ pending' = DOMAIN follow_set_info_by_non_terminal
    /\ pc' = "store"
    /\ UNCHANGED << grammar, i, first_sets, last_sets, symbols_to_process,
                    processed_non_terminals, entries_to_process,
                    follow_set_info_by_non_terminal,
                    transitive_closure_additions, item_set, result >>

Addition(item, info) == [item |-> item, info |-> info]

\* IsStored without the test of variables_to_inline.
IsStoredAlways(variable_index) == TRUE

\* Lines 194-198: the non-terminals whose productions are stored.
IsStored(variable_index) ==
    non_terminal(variable_index) \notin grammar.variables_to_inline

\* Lines 199-225: the additions made for one (variable_index, follow_set_info).
\* find_or_push keeps the list free of duplicates, and the list is read by
\* add_item only through a loop of set unions: it is kept as a set.
AdditionsFor(variable_index, follow_set_info) ==
    IF ~IsStored(variable_index) THEN {}
    ELSE UNION {
        LET item == NormalItem(variable_index, production_index, 0)
        IN  IF NeedsInlining(grammar, grammar.variables_to_inline, item)
            THEN { Addition(inlined_item, follow_set_info)
                   : inlined_item \in Range(InlinedItems(grammar,
                                                grammar.variables_to_inline, item)) }
            ELSE { Addition(item, follow_set_info) }
        : production_index \in 0 .. (Len(Productions(grammar, variable_index)) - 1) }

\* Lines 193-226: one iteration of the loop over follow_set_info_by_non_terminal.
StoreStep ==
    /\ pc = "store"
    /\ \E variable_index \in pending :
        /\ transitive_closure_additions' =
              [transitive_closure_additions EXCEPT ![i] =
                  @ \cup AdditionsFor(variable_index,
                                      follow_set_info_by_non_terminal[variable_index])]
        /\ pending' = pending \ {variable_index}
    /\ UNCHANGED << grammar, pc, i, first_sets, last_sets, symbols_to_process,
                    processed_non_terminals, entries_to_process,
                    follow_set_info_by_non_terminal, item_set, result >>

\* The end of one iteration of the loop of line 142.
NextAdditions ==
    /\ pc = "store"
    /\ pending = {}
    /\ i' = i + 1
    /\ pc' = "additions"
    /\ UNCHANGED << grammar, first_sets, last_sets, symbols_to_process,
                    processed_non_terminals, entries_to_process,
                    follow_set_info_by_non_terminal, pending,
                    transitive_closure_additions, item_set, result >>

\* Line 229: new returns the builder.
Finish ==
    /\ pc = "additions"
    /\ i = NumVars(grammar)
    /\ pc' = "ready"
    /\ UNCHANGED << grammar, i, first_sets, last_sets, symbols_to_process,
                    processed_non_terminals, entries_to_process,
                    follow_set_info_by_non_terminal, pending,
                    transitive_closure_additions, item_set, result >>

BuildNext ==
    \/ TokenSets
    \/ FirstStart
    \/ FirstStep
    \/ LastStart
    \/ LastStep
    \/ NextSymbol
    \/ AdditionsBegin
    \/ WorklistStart
    \/ WorklistStep
    \/ StoreStart
    \/ StoreStep
    \/ NextAdditions
    \/ Finish

(***************************************************************************)
(* transitive_closure and add_item (lines 232-286).  A ParseItemSet is a   *)
(* map from items to lookahead sets; the argument of transitive_closure is *)
(* the sequence of its entries in the order the loop of line 238 visits    *)
(* them.                                                                   *)
(***************************************************************************)
KernelEntry(item, lookaheads) == [item |-> item, lookaheads |-> lookaheads]

\* Lines 266-270: the tokens that can follow the non-terminal at the dot.
FollowingTokens(item, lookaheads) ==
    LET next_step == Step(grammar, Successor(item))
    IN  IF next_step # NONE THEN first_sets[next_step] ELSE lookaheads

\* Lines 274-281: what one addition unions into the entry of its item.
AdditionLookaheads(addition, following_tokens) ==
    InsertAll(addition.info.lookaheads,
              IF addition.info.propagates_lookaheads THEN following_tokens ELSE {})

\* Lines 273-282: the set after the loop over the additions of `symbol`.
WithAdditions(set, symbol, following_tokens) ==
    LET additions == transitive_closure_additions[symbol.index]
        targets == { a.item : a \in additions }
    IN  [it \in DOMAIN set \cup targets |->
            LET before == IF it \in DOMAIN set THEN set[it] ELSE {}
            IN  IF it \in targets
                THEN InsertAll(before,
                        UNION { AdditionLookaheads(a, following_tokens)
                                : a \in { x \in additions : x.item = it } })
                ELSE before]

\* InsertItem that leaves an existing entry alone when the item comes with
\* no lookaheads.
InsertItemUnlessEmpty(set, item, lookaheads) ==
    IF lookaheads = {} /\ item \in DOMAIN set THEN set
    ELSE [x \in DOMAIN set \cup {item} |-> IF x = item THEN lookaheads ELSE set[x]]

\* Line 285: the item itself is inserted with the lookaheads it came with.
InsertItem(set, item, lookaheads) == Put(set, item, lookaheads)

\* fn add_item (lines 254-286).
AddItem(set, item, lookaheads) ==
    LET step == Step(grammar, item)
        expanded == IF step # NONE /\ is_non_terminal(step)
                    THEN WithAdditions(set, step, FollowingTokens(item, lookaheads))
                    ELSE set
    IN  InsertItem(expanded, item, lookaheads)

\* Lines 240-242: add_item for each substitute item, in order.
RECURSIVE AddItems(_, _, _, _)
AddItems(set, items, n, lookaheads) ==
    IF n > Len(items) THEN set
    ELSE AddItems(AddItem(set, items[n], lookaheads), items, n + 1, lookaheads)

\* Lines 238-246: the loop over the entries, from entry n on.
RECURSIVE ClosureFrom(_, _, _)
ClosureFrom(set, entries, n) ==
    IF n > Len(entries) THEN set
    ELSE LET item == entries[n].item
             lookaheads == entries[n].lookaheads
             next == IF NeedsInlining(grammar, grammar.variables_to_inline, item)
                     THEN AddItems(set, InlinedItems(grammar,
                                        grammar.variables_to_inline, item),
                                   1, lookaheads)
                     ELSE AddItem(set, item, lookaheads)
         IN  ClosureFrom(next, entries, n + 1)

\* pub(crate) fn transitive_closure (lines 232-248).
transitive_closure(entries) == ClosureFrom(EmptyMap, entries, 1)

\* The items of the grammar: a production and a dot position in it.
GrammarItems(g) ==
    UNION { UNION { { NormalItem(v, p, k) : k \in 0 .. Len(Productions(g, v)[p + 1]) }
                    : p \in 0 .. (Len(Productions(g, v)) - 1) }
            : v \in VarIndices(g) }

\* The lookahead sets of the kernels.
LookaheadChoices == { {}, {terminal(0)}, {END} }

DistinctItems(entries) ==
    \A m, n \in 1 .. Len(entries) : m # n => entries[m].item # entries[n].item

\* The kernel item sets: at most MaxKernel entries with distinct items.
Kernels(g) ==
    { k \in SeqsUpTo({ KernelEntry(it, la) : it \in GrammarItems(g),
                                             la \in LookaheadChoices }, MaxKernel) :
        Len(k) > 0 /\ DistinctItems(k) }

\* A call of transitive_closure on the finished builder.
TransitiveClosure ==
    /\ pc = "ready"
    /\ \E kernel \in Kernels(grammar) :
        /\ item_set' = kernel
        /\ result' = transitive_closure(kernel)
    /\ pc' = "closed"
    /\ UNCHANGED << grammar, i, first_sets, last_sets, symbols_to_process,
                    processed_non_terminals, entries_to_process,
                    follow_set_info_by_non_terminal, pending,
                    transitive_closure_additions >>

\* The caller is done with the returned set; the builder is as it was.
Discard ==
    /\ pc = "closed"
    /\ item_set' = << >>
    /\ result' = EmptyMap
    /\ pc' = "ready"
    /\ UNCHANGED << grammar, i, first_sets, last_sets, symbols_to_process,
                    processed_non_terminals, entries_to_process,
                    follow_set_info_by_non_terminal, pending,
                    transitive_closure_additions >>

Next == BuildNext \/ TransitiveClosure \/ Discard

Spec == Init /\ [][Next]_vars

\* ParseItemSetBuilder::new alone; it runs to completion on one thread.
BuildSpec == InitBuild /\ [][BuildNext]_vars /\ WF_vars(BuildNext)

(***************************************************************************)
(* Definitions the properties are stated with.                             *)
(***************************************************************************)
\* Every ordering of the entries of a sequence.
RECURSIVE Orderings(_)
Orderings(S) ==
    IF S = {} THEN { << >> }
    ELSE UNION { { << x >> \o q : q \in Orderings(S \ {x}) } : x \in S }

Reorderings(entries) ==
    { [n \in 1 .. Len(entries) |-> entries[f[n]]] : f \in Orderings(1 .. Len(entries)) }

\* The entries of a ParseItemSet.
EntriesOf(set) == { KernelEntry(it, set[it]) : it \in DOMAIN set }

NoInlining == grammar.variables_to_inline = {}

SymbolSetsDone == pc \in { "additions", "worklist", "store", "ready", "closed" }

\* The non-terminals that derive the empty string.
RECURSIVE NullableFrom(_, _)
NullableFrom(g, known) ==
    LET more == { v \in VarIndices(g) :
                    \E n \in 1 .. Len(Productions(g, v)) :
                        \A k \in 1 .. Len(Productions(g, v)[n]) :
                            /\ is_non_terminal(Productions(g, v)[n][k])
                            /\ Productions(g, v)[n][k].index \in known }
    IN  IF more \subseteq known THEN known ELSE NullableFrom(g, known \cup more)

Nullable(g) == NullableFrom(g, {})

\* The symbols X with  s =>* X ...  for a symbol s of `from`: the symbols that
\* begin a sentential form derived from it.
RECURSIVE BeginsFrom(_, _)
BeginsFrom(g, from) ==
    LET more == UNION { UNION { { Productions(g, s.index)[n][k] :
                                    k \in { k \in 1 .. Len(Productions(g, s.index)[n]) :
                                            \A m \in 1 .. (k - 1) :
                                               /\ is_non_terminal(Productions(g, s.index)[n][m])
                                               /\ Productions(g, s.index)[n][m].index
                                                     \in Nullable(g) } }
                                : n \in 1 .. Len(Productions(g, s.index)) }
                        : s \in { x \in from : is_non_terminal(x) } }
    IN  IF more \subseteq from THEN from ELSE BeginsFrom(g, from \cup more)

\* The tokens that begin some derivation of non-terminal v.
DerivationBegins(g, v) ==
    { s \in BeginsFrom(g, { non_terminal(v) }) : ~is_non_terminal(s) }

NoEmptyProduction(g) ==
    \A v \in VarIndices(g) :
        \A n \in 1 .. Len(Productions(g, v)) : Len(Productions(g, v)[n]) > 0

(***************************************************************************)
(* transitive_closure: order of the kernel entries.                        *)
(***************************************************************************)
\* C1: processing the entries of a kernel item set in any other order gives
\* the same result: the same items, each with the same lookahead set.
\* (Stated for grammars without inlining.)
C1_OrderIndependent ==
    (pc = "closed" /\ NoInlining) =>
        \A other \in Reorderings(item_set) : transitive_closure(other) = result

\* C8: every kernel item that needs no inline expansion is in the result
\* with exactly the lookahead set it has in the kernel.  (Stated for
\* grammars without inlining, where no kernel item needs expansion.)
C8_KernelKeepsOwnLookaheads ==
    (pc = "closed" /\ NoInlining) =>
        \A n \in 1 .. Len(item_set) :
            ~NeedsInlining(grammar, grammar.variables_to_inline, item_set[n].item) =>
                /\ item_set[n].item \in DOMAIN result
                /\ result[item_set[n].item] = item_set[n].lookaheads

\* The kernel of the end-to-end example: S -> . A with lookahead $end.
EndToEndKernel == << KernelEntry(NormalItem(0, 0, 0), {END}) >>

C9_ClosureComplete ==
    (pc = "closed" /\ NoInlining) =>
        \A it \in DOMAIN result :
            is_non_terminal(Step(grammar, it)) =>
                \A p \in 0 .. (Len(Productions(grammar, Step(grammar, it).index)) - 1) :
                    NormalItem(Step(grammar, it).index, p, 0) \in DOMAIN result

(***************************************************************************)
(* transitive_closure: idempotence and monotonicity.                       *)
(***************************************************************************)
SameItemSet(a, b) ==
    /\ DOMAIN a = DOMAIN b
    /\ \A it \in DOMAIN a : a[it] = b[it]

\* C2: the closure of a closure is that closure: the same items, each with
\* an equal lookahead set.  The entries of the first result are handed to
\* the second call in some order; the statement asks only that one order
\* gives the first result back.  (Stated for grammars without inlining.)
C2_Idempotent ==
    (pc = "closed" /\ NoInlining) =>
        \E again \in Orderings(EntriesOf(result)) :
            SameItemSet(transitive_closure(again), result)

\* The kernels with the items of `entries`, in the same order, whose
\* lookahead sets are subsets of those of `entries`.
RECURSIVE Shrinks(_)
Shrinks(entries) ==
    IF entries = << >> THEN { << >> }
    ELSE { << KernelEntry(Head(entries).item, la) >> \o rest :
              la \in SUBSET Head(entries).lookaheads, rest \in Shrinks(Tail(entries)) }

\* C3: a kernel with the same items and, per item, a subset of the
\* lookaheads has a closure with the same items and, per item, a subset of
\* the lookaheads.
C3_Monotone ==
    pc = "closed" =>
        \A smaller \in Shrinks(item_set) :
            LET below == transitive_closure(smaller)
            IN  /\ DOMAIN below = DOMAIN result
                /\ \A it \in DOMAIN result : below[it] \subseteq result[it]

\* The items add_item inserts for the kernel entries themselves.
KernelProcessedItems ==
    UNION { IF NeedsInlining(grammar, grammar.variables_to_inline, item_set[n].item)
            THEN Range(InlinedItems(grammar, grammar.variables_to_inline,
                                    item_set[n].item))
            ELSE { item_set[n].item }
            : n \in 1 .. Len(item_set) }

\* A closure in which an item that came from an addition has strictly more
\* lookaheads than under a smaller kernel: the kernel's lookaheads were
\* propagated to it.
C3_Witness ==
    /\ pc = "closed"
    /\ \E smaller \in Shrinks(item_set) :
          \E it \in DOMAIN result \ KernelProcessedItems :
              transitive_closure(smaller)[it] # result[it]

(***************************************************************************)
(* Inlining.                                                               *)
(***************************************************************************)
\* C6: no addition of any non-terminal is an item of a to-inline
\* non-terminal; so an item of a to-inline non-terminal in a closure was
\* put there as a kernel item, never by an addition.
C6_InlineExcluded ==
    /\ \A v \in DOMAIN transitive_closure_additions :
          \A a \in transitive_closure_additions[v] :
              non_terminal(a.item.variable_index) \notin grammar.variables_to_inline
    /\ pc = "closed" =>
          \A it \in DOMAIN result :
              non_terminal(it.variable_index) \in grammar.variables_to_inline =>
                  it \in KernelProcessedItems

\* A closure that holds a substitute item put there by an addition, for a
\* non-terminal whose worklist reached a to-inline non-terminal.
C6_Witness ==
    /\ pc = "closed"
    /\ grammar.variables_to_inline # {}
    /\ \E it \in DOMAIN result \ KernelProcessedItems : it.kind = "Inlined"

(***************************************************************************)
(* ParseItemSetBuilder::new: FIRST sets and the closure-additions worklist.*)
(***************************************************************************)
\* C4 as stated: for every non-terminal, first_set is exactly the set of
\* tokens that begin some derivation of it, also in grammars that have
\* productions without steps.
C4_FirstExact ==
    SymbolSetsDone =>
        \A v \in VarIndices(grammar) :
            first_set(non_terminal(v)) = DerivationBegins(grammar, v)

\* C4 as amended: every token of first_set begins some derivation of the
\* non-terminal, and when no production of the grammar is without steps the
\* set holds every such token.
C4_FirstExactWithoutEmptyProductions ==
    SymbolSetsDone =>
        \A v \in VarIndices(grammar) :
            /\ first_set(non_terminal(v)) \subseteq DerivationBegins(grammar, v)
            /\ NoEmptyProduction(grammar) =>
                  first_set(non_terminal(v)) = DerivationBegins(grammar, v)

\* A grammar without empty productions in which a non-terminal has a
\* non-empty FIRST set although none of its productions begins with a token.
C4_Witness ==
    /\ SymbolSetsDone
    /\ NoEmptyProduction(grammar)
    /\ \E v \in VarIndices(grammar) :
          /\ first_set(non_terminal(v)) # {}
          /\ \A n \in 1 .. Len(Productions(grammar, v)) :
                is_non_terminal(Productions(grammar, v)[n][1])

\* C5: the worklist of every non-terminal runs empty.
C5_WorklistTerminates == (pc = "worklist") ~> (entries_to_process = << >>)

\* The worklist of a non-terminal has run empty after it came back to that
\* non-terminal with concrete lookaheads (a left-recursive grammar).
C5_Witness ==
    /\ pc = "worklist"
    /\ entries_to_process = << >>
    /\ follow_set_info_by_non_terminal[i].lookaheads # {}

\* The cap on the worklist stack is never what stops a step.
StackBelowCap == Len(entries_to_process) < StackCap

\* C10: when the worklist is empty the accumulator is a fixed point: for
\* every non-terminal j in it and every production of j that begins with a
\* non-terminal k, k is in it, and (a) for a one-step production k has j's
\* lookaheads and j's propagate flag, (b) otherwise k has FIRST of the
\* production's second step.
C10_FixedPoint ==
    (pc = "worklist" /\ entries_to_process = << >>) =>
        \A j \in DOMAIN follow_set_info_by_non_terminal :
            \A n \in 1 .. Len(Productions(grammar, j)) :
                LET p == Productions(grammar, j)[n]
                    info == follow_set_info_by_non_terminal
                IN  (Len(p) > 0 /\ is_non_terminal(p[1])) =>
                        /\ p[1].index \in DOMAIN info
                        /\ Len(p) = 1 =>
                              /\ info[j].lookaheads \subseteq info[p[1].index].lookaheads
                              /\ info[j].propagates_lookaheads
                                    => info[p[1].index].propagates_lookaheads
                        /\ Len(p) > 1 =>
                              first_sets[p[2]] \subseteq info[p[1].index].lookaheads

====
